---- MODULE Spec2Model ----
(***************************************************************************)
(* A model of gbdxtools/simpleworkflows.py: Port, PortList, Inputs,        *)
(* Outputs, Task and Workflow.                                             *)
(*                                                                         *)
(* Strings are sequences of tokens, so that str.startswith, str.replace    *)
(* and string concatenation are computed and not assumed: the task type    *)
(* "P:1" is <<"P", ":", "1">>, the forward reference "source:P_1_u1:out"   *)
(* is <<"source", ":", "P", "_", "1", "_", "u1", ":", "out">>.             *)
(* Python values carry their type in a tag.                                *)
(***************************************************************************)
EXTENDS Integers, Sequences, FiniteSets, TLC

VARIABLES tasks, wf, remote, edits, last

vars == <<tasks, wf, remote, edits, last>>

----------------------------------------------------------------------------
(* Python values *)

NoneV == [tag |-> "None"]
StrV(s) == [tag |-> "str", s |-> s]
BoolV(b) == [tag |-> "bool", b |-> b]
IntV(n) == [tag |-> "int", n |-> n]
ListV(l) == [tag |-> "list", items |-> l]
PortV(p) == [tag |-> "Port", port |-> p]

\* str.startswith
startswith(s, p) == Len(s) >= Len(p) /\ SubSeq(s, 1, Len(p)) = p

\* str.replace(old, new): every non-overlapping occurrence, left to right
RECURSIVE replace(_, _, _)
replace(s, old, new) ==
    IF s = <<>> THEN <<>>
    ELSE IF startswith(s, old)
         THEN new \o replace(SubSeq(s, Len(old) + 1, Len(s)), old, new)
         ELSE <<Head(s)>> \o replace(Tail(s), old, new)

\* str(v) for the values an input port can hold
py_str(v) ==
    CASE v.tag = "str" -> v.s
      [] v.tag = "int" -> <<ToString(v.n)>>
      [] v.tag = "bool" -> IF v.b THEN <<"True">> ELSE <<"False">>
      [] v.tag = "None" -> <<"None">>
      [] OTHER -> <<"<object>">>

\* the literal 'source:'
SOURCE == <<"source", ":">>

\* "{{{{{0}}}}}".format("batch_input_{0}".format(k))
batch_input_name(k) == <<"batch_input_">> \o k

\* mutant of batch_placeholder: one pair of braces lost to str.format
batch_placeholder_single_braces(k) == <<"{">> \o batch_input_name(k) \o <<"}">>

batch_placeholder(k) == <<"{{">> \o batch_input_name(k) \o <<"}}">>

----------------------------------------------------------------------------
(* The task registry: the definitions get_definition returns.  Type "P:1"  *)
(* has a required input and a multiplex output; type "Q" has an optional   *)
(* input named timeout and no 'timeout' property; type "M" has a multiplex *)
(* input and a multiplex output.                                           *)

TypeP == <<"P", ":", "1">>
TypeQ == <<"Q">>
TypeM == <<"M">>
TaskTypes == {TypeP, TypeQ}

descriptor(n, ty, req, mx) == [name |-> n, type |-> ty, required |-> req, multiplex |-> mx]

get_definition(ty) ==
    IF ty = TypeP
    THEN [inputPortDescriptors |-> <<descriptor(<<"data">>, "directory", BoolV(TRUE), FALSE)>>,
          outputPortDescriptors |-> <<descriptor(<<"out">>, "directory", NoneV, FALSE),
                                      descriptor(<<"mp">>, "directory", NoneV, TRUE)>>,
          timeout |-> IntV(36000),
          domain |-> "default"]
    ELSE IF ty = TypeM
    THEN [inputPortDescriptors |-> <<descriptor(<<"data">>, "directory", BoolV(TRUE), FALSE),
                                     descriptor(<<"in">>, "string", BoolV(FALSE), TRUE)>>,
          outputPortDescriptors |-> <<descriptor(<<"out">>, "directory", NoneV, FALSE),
                                      descriptor(<<"mp">>, "directory", NoneV, TRUE)>>,
          timeout |-> IntV(36000),
          domain |-> "default"]
    ELSE [inputPortDescriptors |-> <<descriptor(<<"data">>, "directory", BoolV(TRUE), FALSE),
                                     descriptor(<<"timeout">>, "string", BoolV(FALSE), FALSE)>>,
          outputPortDescriptors |-> <<descriptor(<<"out">>, "directory", NoneV, FALSE)>>,
          timeout |-> NoneV,
          domain |-> "default"]

\* the task slots of the model, and str(uuid.uuid4())[:8] of each
MaxTasks == 2
TaskIds == 1..MaxTasks
uuid8(t) == <<"u" \o ToString(t)>>

----------------------------------------------------------------------------
(* Port *)

Port(name, type, required, value, is_input_port, is_multiplex) ==
    [name |-> name, type |-> type, required |-> required, value |-> value,
     is_input_port |-> is_input_port, is_multiplex |-> is_multiplex,
     persist_attr |-> FALSE, persist_location_attr |-> NoneV]

\* Port.persist (getter)
persist(port) == IF port.is_input_port THEN FALSE ELSE port.persist_attr

\* Port.persist_location (getter)
persist_location(port) == IF port.is_input_port THEN NoneV ELSE port.persist_location_attr

\* Port.persist (setter)
persist_setter(port, value) ==
    IF ~port.is_input_port THEN [port EXCEPT !.persist_attr = value] ELSE port

\* Port.persist_location (setter)
persist_location_setter(port, value) ==
    IF ~port.is_input_port THEN [port EXCEPT !.persist_location_attr = value] ELSE port

Range(s) == {s[i] : i \in 1..Len(s)}

\* Outputs.__init__: every declared port, value the forward reference
Outputs__init__(ports, task_name) ==
    [portnames |-> {p.name : p \in Range(ports)},
     attrs |-> [n \in {p.name : p \in Range(ports)} |->
                  LET p == CHOOSE q \in Range(ports) : q.name = n
                  IN Port(p.name, p.type, p.required,
                          StrV(SOURCE \o task_name \o <<":">> \o p.name),
                          FALSE, p.multiplex)]]

\* hasattr(self, p) on a port collection
hasattr(pl, p) == p \in DOMAIN pl.attrs

\* PortList.get_matching_multiplex_port: the ports the comprehension keeps;
\* the method returns the first of them, None when there is none
matching_multiplex_ports(pl, name) ==
    {pl.attrs[p] : p \in {q \in pl.portnames :
                            /\ startswith(name, q)
                            /\ name # q
                            /\ hasattr(pl, q)
                            /\ pl.attrs[q].is_multiplex}}

\* Inputs.__setattr__(k, v) on the collection inp of a task whose batch_values
\* is bv.  The names 'task' and '_portnames' are the collection's own
\* attributes and are no port names of the registry modelled.
\* exc is "none" or the exception raised.
Inputs__setattr__(inp, bv, k, v) ==
    IF k \in inp.portnames /\ hasattr(inp, k)
    THEN IF v.tag = "list"
         THEN [exc |-> "none",
               inputs |-> [inp EXCEPT !.attrs[k].value = StrV(batch_placeholder(k))],
               batch_values |-> Append(bv, [name |-> batch_input_name(k),
                                            values |-> v.items])]
         ELSE [exc |-> "none",
               inputs |-> [inp EXCEPT !.attrs[k].value = v],
               batch_values |-> bv]
    ELSE LET mps == matching_multiplex_ports(inp, k)
         IN IF mps # {}
            THEN LET mp_port == CHOOSE p \in mps : TRUE
                 IN [exc |-> "none",
                     inputs |-> [portnames |-> inp.portnames \cup {k},
                                 attrs |-> (k :> Port(k, mp_port.type, mp_port.required,
                                                      v, TRUE, FALSE)) @@ inp.attrs],
                     batch_values |-> bv]
            ELSE IF k \in inp.portnames
                 THEN [exc |-> "none",
                       inputs |-> [inp EXCEPT !.attrs =
                                      (k :> (IF v.tag = "Port" THEN v.port ELSE v)) @@ @],
                       batch_values |-> bv]
                 ELSE [exc |-> "AttributeError", inputs |-> inp, batch_values |-> bv]

\* PortList.__init__ (as Inputs runs it): _portnames first, then one
\* __setattr__ per descriptor, in order, each with a fresh Port of value None
RECURSIVE PortList__init__loop(_, _, _)
PortList__init__loop(inp, ports, i) ==
    IF i > Len(ports) THEN inp
    ELSE LET p == ports[i]
             r == Inputs__setattr__(inp, <<>>, p.name,
                     PortV(Port(p.name, p.type, p.required, NoneV, TRUE, p.multiplex)))
         IN PortList__init__loop(r.inputs, ports, i + 1)

PortList__init__(ports) ==
    PortList__init__loop([portnames |-> {p.name : p \in Range(ports)}, attrs |-> <<>>],
                         ports, 1)

----------------------------------------------------------------------------
(* Task.  batch_values None and [] are both falsy and the code never tells  *)
(* them apart: both are the empty sequence here.                            *)

\* Task.set(**kwargs): kwargs is the sequence of <<name, value>> pairs in
\* the order given; a Port argument is replaced by its value.  An exception
\* leaves the assignments already made in place.
RECURSIVE set(_, _)
set(task, kwargs) ==
    IF kwargs = <<>> THEN [exc |-> "none", task |-> task]
    ELSE LET port_name == kwargs[1][1]
             arg == kwargs[1][2]
             port_value == IF arg.tag = "Port" THEN arg.port.value ELSE arg
             r == Inputs__setattr__(task.inputs, task.batch_values, port_name, port_value)
             t2 == [task EXCEPT !.inputs = r.inputs, !.batch_values = r.batch_values]
         IN IF r.exc # "none" THEN [exc |-> r.exc, task |-> task]
            ELSE set(t2, Tail(kwargs))

\* int(value)
py_int(v) ==
    CASE v.tag = "int" -> v.n
      [] v.tag = "bool" -> IF v.b THEN 1 ELSE 0

TimeoutLimit == 172800

\* mutant of timeout_setter: the upper limit itself is accepted
timeout_setter_inclusive(task, value) ==
    IF ~(0 < py_int(value) /\ py_int(value) <= TimeoutLimit)
    THEN [exc |-> "ValueError", task |-> task]
    ELSE [exc |-> "none", task |-> [task EXCEPT !.timeout = IntV(py_int(value))]]

\* Task.timeout (setter)
timeout_setter(task, value) ==
    IF ~(0 < py_int(value) /\ py_int(value) < TimeoutLimit)
    THEN [exc |-> "ValueError", task |-> task]
    ELSE [exc |-> "none", task |-> [task EXCEPT !.timeout = IntV(py_int(value))]]

\* mutant of Task__init__: a timeout keyword goes to the timeout property
Task__init__timeout_keyword(t, task_type, kwargs) ==
    LET name == replace(task_type \o <<"_">> \o uuid8(t), <<":">>, <<"_">>)
        definition == get_definition(task_type)
        self == [name |-> name,
                 type |-> task_type,
                 domain |-> definition.domain,
                 timeout |-> definition.timeout,
                 inputs |-> PortList__init__(definition.inputPortDescriptors),
                 outputs |-> Outputs__init__(definition.outputPortDescriptors, name),
                 batch_values |-> <<>>,
                 impersonation_allowed |-> NoneV]
    IN IF kwargs # <<>> /\ kwargs[1][1] = <<"timeout">>
       THEN timeout_setter(self, kwargs[1][2])
       ELSE set(self, kwargs)

\* Task.__init__(__task_type, **kwargs) in slot t
Task__init__(t, task_type, kwargs) ==
    LET name == replace(task_type \o <<"_">> \o uuid8(t), <<":">>, <<"_">>)
        definition == get_definition(task_type)
        self == [name |-> name,
                 type |-> task_type,
                 domain |-> definition.domain,
                 timeout |-> definition.timeout,
                 inputs |-> PortList__init__(definition.inputPortDescriptors),
                 outputs |-> Outputs__init__(definition.outputPortDescriptors, name),
                 batch_values |-> <<>>,
                 impersonation_allowed |-> NoneV]
    IN set(self, kwargs)

\* the order in which a set of names is iterated
RECURSIVE SetToSeq(_)
SetToSeq(S) ==
    IF S = {} THEN <<>>
    ELSE LET x == CHOOSE y \in S : TRUE IN <<x>> \o SetToSeq(S \ {x})

\* mutant of input_entry: the 'source:' prefix is kept in the source key
input_entry_keeps_prefix(task, input_port_name) ==
    LET v0 == task.inputs.attrs[input_port_name].value
        v1 == IF v0 = BoolV(FALSE) THEN StrV(<<"false">>) ELSE v0
        input_port_value == IF v1 = BoolV(TRUE) THEN StrV(<<"true">>) ELSE v1
    IN IF v0 = NoneV THEN <<>>
       ELSE IF startswith(py_str(input_port_value), SOURCE)
            THEN <<[name |-> input_port_name, source |-> input_port_value.s]>>
            ELSE <<[name |-> input_port_name, value |-> input_port_value]>>

\* mutant of input_entry: every falsy value is skipped, not only None
input_entry_skips_falsy(task, input_port_name) ==
    LET v0 == task.inputs.attrs[input_port_name].value
        input_port_value == IF v0 = BoolV(TRUE) THEN StrV(<<"true">>) ELSE v0
    IN IF v0 \in {NoneV, BoolV(FALSE), IntV(0), StrV(<<>>)} THEN <<>>
       ELSE IF startswith(py_str(input_port_value), SOURCE)
            THEN <<[name |-> input_port_name,
                    source |-> replace(input_port_value.s, SOURCE, <<>>)]>>
            ELSE <<[name |-> input_port_name, value |-> input_port_value]>>

\* mutant of input_entry: True and False are emitted as they are
input_entry_untranslated(task, input_port_name) ==
    LET input_port_value == task.inputs.attrs[input_port_name].value
    IN IF input_port_value = NoneV THEN <<>>
       ELSE IF startswith(py_str(input_port_value), SOURCE)
            THEN <<[name |-> input_port_name,
                    source |-> replace(input_port_value.s, SOURCE, <<>>)]>>
            ELSE <<[name |-> input_port_name, value |-> input_port_value]>>

\* the entry the inputs loop appends for one port; <<>> when the port is skipped
input_entry(task, input_port_name) ==
    LET v0 == task.inputs.attrs[input_port_name].value
        v1 == IF v0 = BoolV(FALSE) THEN StrV(<<"false">>) ELSE v0
        input_port_value == IF v1 = BoolV(TRUE) THEN StrV(<<"true">>) ELSE v1
    IN IF v0 = NoneV THEN <<>>
       ELSE IF startswith(py_str(input_port_value), SOURCE)
            THEN <<[name |-> input_port_name,
                    source |-> replace(input_port_value.s, SOURCE, <<>>)]>>
            ELSE <<[name |-> input_port_name, value |-> input_port_value]>>

\* the entry the outputs loop appends for one port; <<>> when excluded
output_entry(task, output_port_name, output_multiplex_ports_to_exclude) ==
    LET port == task.outputs.attrs[output_port_name]
        d0 == [name |-> output_port_name]
        d1 == IF persist(port) THEN d0 @@ [persist |-> TRUE] ELSE d0
        d2 == IF persist_location(port) # NoneV
              THEN d1 @@ [persistLocation |-> persist_location(port)] ELSE d1
    IN IF output_port_name \in output_multiplex_ports_to_exclude THEN <<>> ELSE <<d2>>

RECURSIVE Flatten(_)
Flatten(ss) == IF ss = <<>> THEN <<>> ELSE Head(ss) \o Flatten(Tail(ss))

\* Task.generate_task_workflow_json(output_multiplex_ports_to_exclude)
generate_task_workflow_json(task, output_multiplex_ports_to_exclude) ==
    LET ins == SetToSeq(task.inputs.portnames)
        outs == SetToSeq(task.outputs.portnames)
        d == [name |-> task.name,
              outputs |-> Flatten([i \in 1..Len(outs) |->
                            output_entry(task, outs[i], output_multiplex_ports_to_exclude)]),
              inputs |-> Flatten([i \in 1..Len(ins) |-> input_entry(task, ins[i])]),
              taskType |-> task.type,
              timeout |-> task.timeout,
              containerDescriptors |-> <<[properties |-> [domain |-> task.domain]]>>]
    IN IF task.impersonation_allowed = BoolV(TRUE)
       THEN d @@ [impersonation_allowed |-> task.impersonation_allowed]
       ELSE d

----------------------------------------------------------------------------
(* Outputs *)

\* mutant of Outputs__getattribute__: a name prefixed by a multiplex port
\* gets a new port at every read
Outputs__getattribute__recreates(outs, task_name, k) ==
    LET mps == matching_multiplex_ports(outs, k)
    IN IF mps # {}
       THEN LET mp_port == CHOOSE p \in mps : TRUE
                new == Port(mp_port.name, mp_port.type, mp_port.required,
                            StrV(SOURCE \o task_name \o <<":">> \o k), FALSE, FALSE)
            IN [exc |-> "none",
                outputs |-> [portnames |-> outs.portnames \cup {k},
                             attrs |-> (k :> new) @@ outs.attrs],
                ret |-> new]
       ELSE IF k \in outs.portnames
            THEN [exc |-> "none", outputs |-> outs, ret |-> outs.attrs[k]]
            ELSE [exc |-> "AttributeError", outputs |-> outs, ret |-> NoneV]

\* Outputs.__getattribute__(k) for a port name k: the collection afterwards,
\* and the Port returned or the exception raised
Outputs__getattribute__(outs, task_name, k) ==
    IF k \in outs.portnames
    THEN [exc |-> "none", outputs |-> outs, ret |-> outs.attrs[k]]
    ELSE LET mps == matching_multiplex_ports(outs, k)
         IN IF mps # {}
            THEN LET mp_port == CHOOSE p \in mps : TRUE
                     new == Port(mp_port.name, mp_port.type, mp_port.required,
                                 StrV(SOURCE \o task_name \o <<":">> \o k), FALSE, FALSE)
                 IN [exc |-> "none",
                     outputs |-> [portnames |-> outs.portnames \cup {k},
                                  attrs |-> (k :> new) @@ outs.attrs],
                     ret |-> new]
            ELSE [exc |-> "AttributeError", outputs |-> outs, ret |-> NoneV]

----------------------------------------------------------------------------
(* Workflow *)

\* Workflow.__init__(tasks, **kwargs): tasks is the list of task slots
Workflow__init__(ts, task_list, name, callback) ==
    [workflow |-> "WF",
     name |-> name,
     id |-> NoneV,
     callback |-> callback,
     definition |-> NoneV,
     tasks |-> task_list,
     batch_values |-> Flatten([i \in 1..Len(task_list) |-> ts[task_list[i]].batch_values])]

\* Workflow.workflow_skeleton
workflow_skeleton(self) == [tasks |-> <<>>, name |-> self.name]

\* mutant of output_multiplex_ports_to_exclude: the ports materialized from a
\* multiplex port are pruned like the multiplex port itself
output_multiplex_ports_to_exclude_family(self, ts, task) ==
    LET all_input_port_values ==
            UNION {{ts[self.tasks[i]].inputs.attrs[n].value :
                        n \in ts[self.tasks[i]].inputs.portnames} : i \in 1..Len(self.tasks)}
        multiplex_output_port_names ==
            {portname \in task.outputs.portnames :
                \/ task.outputs.attrs[portname].is_multiplex
                \/ matching_multiplex_ports(task.outputs, portname) # {}}
    IN IF Len(self.tasks) > 1
       THEN {q \in multiplex_output_port_names :
                StrV(SOURCE \o task.name \o <<":">> \o q) \notin all_input_port_values}
       ELSE {}

\* mutant of output_multiplex_ports_to_exclude: pruning whatever the number
\* of tasks
output_multiplex_ports_to_exclude_always(self, ts, task) ==
    LET all_input_port_values ==
            UNION {{ts[self.tasks[i]].inputs.attrs[n].value :
                        n \in ts[self.tasks[i]].inputs.portnames} : i \in 1..Len(self.tasks)}
        multiplex_output_port_names ==
            {portname \in task.outputs.portnames : task.outputs.attrs[portname].is_multiplex}
    IN {q \in multiplex_output_port_names :
           StrV(SOURCE \o task.name \o <<":">> \o q) \notin all_input_port_values}

\* the exclusion list generate_workflow_description computes for one task
output_multiplex_ports_to_exclude(self, ts, task) ==
    LET all_input_port_values ==
            UNION {{ts[self.tasks[i]].inputs.attrs[n].value :
                        n \in ts[self.tasks[i]].inputs.portnames} : i \in 1..Len(self.tasks)}
        multiplex_output_port_names ==
            {portname \in task.outputs.portnames : task.outputs.attrs[portname].is_multiplex}
    IN IF Len(self.tasks) > 1
       THEN {q \in multiplex_output_port_names :
                StrV(SOURCE \o task.name \o <<":">> \o q) \notin all_input_port_values}
       ELSE {}

\* mutant of generate_workflow_description: the task records are appended
\* to those of the cached definition
generate_workflow_description_accumulates(self, ts) ==
    IF self.tasks = <<>>
    THEN [exc |-> "WorkflowError", wf |-> self]
    ELSE LET d0 == workflow_skeleton(self)
             d1 == IF self.batch_values # <<>>
                   THEN d0 @@ [batch_values |-> self.batch_values] ELSE d0
             task_defs == [i \in 1..Len(self.tasks) |->
                             generate_task_workflow_json(ts[self.tasks[i]],
                                 output_multiplex_ports_to_exclude(self, ts, ts[self.tasks[i]]))]
             d2 == [d1 EXCEPT !.tasks = IF self.definition = NoneV THEN task_defs
                                        ELSE self.definition.tasks \o task_defs]
             d3 == IF self.callback # NoneV THEN d2 @@ [callback |-> self.callback] ELSE d2
         IN [exc |-> "none", wf |-> [self EXCEPT !.definition = d3]]

\* mutant of generate_workflow_description: no test for an empty task list
generate_workflow_description_unchecked(self, ts) ==
    LET d0 == workflow_skeleton(self)
        d1 == IF self.batch_values # <<>>
              THEN d0 @@ [batch_values |-> self.batch_values] ELSE d0
        task_defs == [i \in 1..Len(self.tasks) |->
                        generate_task_workflow_json(ts[self.tasks[i]],
                            output_multiplex_ports_to_exclude(self, ts, ts[self.tasks[i]]))]
        d2 == [d1 EXCEPT !.tasks = task_defs]
        d3 == IF self.callback # NoneV THEN d2 @@ [callback |-> self.callback] ELSE d2
    IN [exc |-> "none", wf |-> [self EXCEPT !.definition = d3]]

\* Workflow.generate_workflow_description: the exception and the workflow
\* afterwards (its definition is the document returned)
generate_workflow_description(self, ts) ==
    IF self.tasks = <<>>
    THEN [exc |-> "WorkflowError", wf |-> self]
    ELSE LET d0 == workflow_skeleton(self)
             d1 == IF self.batch_values # <<>>
                   THEN d0 @@ [batch_values |-> self.batch_values] ELSE d0
             task_defs == [i \in 1..Len(self.tasks) |->
                             generate_task_workflow_json(ts[self.tasks[i]],
                                 output_multiplex_ports_to_exclude(self, ts, ts[self.tasks[i]]))]
             d2 == [d1 EXCEPT !.tasks = task_defs]
             d3 == IF self.callback # NoneV THEN d2 @@ [callback |-> self.callback] ELSE d2
         IN [exc |-> "none", wf |-> [self EXCEPT !.definition = d3]]

----------------------------------------------------------------------------
(* The remote workflow service (gbdxtools.workflow.Workflow), as the code   *)
(* uses it: launch and launch_batch_workflow return an identifier, status   *)
(* returns {state, event}, batch_workflow_status returns {workflows:        *)
(* [{state}, ...]}, get returns {tasks: [...]}.                             *)

WorkflowStates == {"pending", "running", "complete"}
WorkflowEvents == {"submitting", "scheduled", "rescheduling", "waiting", "started",
                   "succeeded", "failed", "canceled", "timedout"}
SubWorkflowStates == {"succeeded", "failed", "timedout", "canceled", "running"}

\* the identifier the service returns for its n-th submission
workflow_id(n) == StrV(<<"wf" \o ToString(n)>>)

\* the outcome of an operation: the exception raised ("none" if none), the
\* value returned, the remote calls made, in order
result(exc, ret, calls) == [exc |-> exc, ret |-> ret, calls |-> calls]

\* Workflow.status (getter)
status(self, rem) ==
    IF self.id = NoneV THEN result("WorkflowError", NoneV, <<>>)
    ELSE IF self.batch_values # <<>>
         THEN result("none", [workflows |-> rem.workflows], <<"batch_workflow_status">>)
         ELSE result("none", rem.status, <<"status">>)

\* mutant of task_ids: the batch test comes before the test of id
task_ids_batch_first(self, rem) ==
    IF self.batch_values # <<>> THEN result("NotImplementedError", NoneV, <<>>)
    ELSE IF self.id = NoneV THEN result("WorkflowError", NoneV, <<>>)
    ELSE result("none", [i \in 1..Len(rem.tasks) |-> rem.tasks[i].id], <<"get">>)

\* Workflow.task_ids (getter)
task_ids(self, rem) ==
    IF self.id = NoneV THEN result("WorkflowError", NoneV, <<>>)
    ELSE IF self.batch_values # <<>> THEN result("NotImplementedError", NoneV, <<>>)
    ELSE result("none", [i \in 1..Len(rem.tasks) |-> rem.tasks[i].id], <<"get">>)

\* Workflow.events (getter)
events(self, rem) ==
    IF self.id = NoneV THEN result("WorkflowError", NoneV, <<>>)
    ELSE IF self.batch_values # <<>> THEN result("NotImplementedError", NoneV, <<>>)
    ELSE result("none", rem.events, <<"events">>)

\* mutant of task_output: no test for a batch workflow
task_output_any_workflow(self, rem, stream) ==
    IF self.id = NoneV THEN result("WorkflowError", NoneV, <<>>)
    ELSE result("none",
                [i \in 1..Len(rem.tasks) |->
                    [id |-> rem.tasks[i].id, taskType |-> rem.tasks[i].taskType,
                     name |-> rem.tasks[i].name, output |-> <<stream, rem.tasks[i].id>>]],
                <<"get">> \o [i \in 1..Len(rem.tasks) |-> "get_" \o stream])

\* Workflow.stdout and Workflow.stderr (getters): stream is "stdout" or "stderr"
task_output(self, rem, stream) ==
    IF self.id = NoneV THEN result("WorkflowError", NoneV, <<>>)
    ELSE IF self.batch_values # <<>> THEN result("NotImplementedError", NoneV, <<>>)
    ELSE result("none",
                [i \in 1..Len(rem.tasks) |->
                    [id |-> rem.tasks[i].id, taskType |-> rem.tasks[i].taskType,
                     name |-> rem.tasks[i].name, output |-> <<stream, rem.tasks[i].id>>]],
                <<"get">> \o [i \in 1..Len(rem.tasks) |-> "get_" \o stream])

stdout(self, rem) == task_output(self, rem, "stdout")
stderr(self, rem) == task_output(self, rem, "stderr")

\* Workflow.cancel
cancel(self, rem) ==
    IF self.id = NoneV THEN result("WorkflowError", NoneV, <<>>)
    ELSE IF self.batch_values # <<>>
         THEN result("none", NoneV, <<"batch_workflow_cancel">>)
         ELSE result("none", NoneV, <<"cancel">>)

all_in(workflows, states) == \A i \in 1..Len(workflows) : workflows[i].state \in states

\* mutant of complete: a canceled sub-workflow counts as done
complete_counts_canceled(self, rem) ==
    IF self.id = NoneV THEN result("none", FALSE, <<>>)
    ELSE IF self.batch_values # <<>>
         THEN result("none",
                     all_in(status(self, rem).ret.workflows,
                            {"succeeded", "failed", "timedout", "canceled"}),
                     status(self, rem).calls)
         ELSE result("none", status(self, rem).ret.state = "complete", status(self, rem).calls)

\* Workflow.complete (getter)
complete(self, rem) ==
    IF self.id = NoneV THEN result("none", FALSE, <<>>)
    ELSE IF self.batch_values # <<>>
         THEN result("none",
                     all_in(status(self, rem).ret.workflows, {"succeeded", "failed", "timedout"}),
                     status(self, rem).calls)
         ELSE result("none", status(self, rem).ret.state = "complete", status(self, rem).calls)

\* mutant of succeeded: the state and the event come from two status reads
succeeded_two_fetches(self, rem) ==
    IF self.id = NoneV THEN result("none", FALSE, <<>>)
    ELSE IF self.batch_values # <<>>
         THEN result("none", all_in(status(self, rem).ret.workflows, {"succeeded"}),
                     status(self, rem).calls)
         ELSE LET st == status(self, rem)
              IN result("none", st.ret.state = "complete" /\ st.ret.event = "succeeded",
                        st.calls \o st.calls)

\* Workflow.succeeded (getter)
succeeded(self, rem) ==
    IF self.id = NoneV THEN result("none", FALSE, <<>>)
    ELSE IF self.batch_values # <<>>
         THEN result("none", all_in(status(self, rem).ret.workflows, {"succeeded"}),
                     status(self, rem).calls)
         ELSE LET st == status(self, rem)
              IN result("none", st.ret.state = "complete" /\ st.ret.event = "succeeded", st.calls)

\* mutant of running: the state alone decides, whatever the event
running_any_event(self, rem) ==
    IF self.id = NoneV THEN result("none", FALSE, <<>>)
    ELSE IF self.batch_values # <<>>
         THEN result("none",
                     ~all_in(status(self, rem).ret.workflows, {"succeeded", "failed", "timedout"}),
                     status(self, rem).calls)
         ELSE LET st == status(self, rem)
              IN result("none", st.ret.state = "running", st.calls)

\* Workflow.running (getter)
running(self, rem) ==
    IF self.id = NoneV THEN result("none", FALSE, <<>>)
    ELSE IF self.batch_values # <<>>
         THEN result("none",
                     ~all_in(status(self, rem).ret.workflows, {"succeeded", "failed", "timedout"}),
                     status(self, rem).calls)
         ELSE LET st == status(self, rem)
              IN result("none", st.ret.state = "running" /\ st.ret.event = "started", st.calls)

\* mutant of complete_with: no test for a batch workflow, whose status
\* record has no 'state' key
complete_with_any_workflow(self, rem, event) ==
    IF self.id = NoneV THEN result("none", FALSE, <<>>)
    ELSE LET st == status(self, rem)
         IN IF self.batch_values # <<>> THEN result("KeyError", NoneV, st.calls)
            ELSE result("none", st.ret.state = "complete" /\ st.ret.event = event, st.calls)

\* Workflow.failed, canceled, timedout (getters): state 'complete' and the event
complete_with(self, rem, event) ==
    IF self.id = NoneV THEN result("none", FALSE, <<>>)
    ELSE IF self.batch_values # <<>> THEN result("NotImplementedError", NoneV, <<>>)
    ELSE LET st == status(self, rem)
         IN result("none", st.ret.state = "complete" /\ st.ret.event = event, st.calls)

failed(self, rem) == complete_with(self, rem, "failed")
canceled(self, rem) == complete_with(self, rem, "canceled")
timedout(self, rem) == complete_with(self, rem, "timedout")

\* Workflow.scheduling, rescheduling, waiting, submitting (getters): the
\* event, in state 'pending' or 'running'
in_progress_with(self, rem, event) ==
    IF self.id = NoneV THEN result("none", FALSE, <<>>)
    ELSE IF self.batch_values # <<>> THEN result("NotImplementedError", NoneV, <<>>)
    ELSE LET st == status(self, rem)
         IN result("none", st.ret.event = event /\ st.ret.state \in {"pending", "running"},
                   st.calls)

scheduling(self, rem) == in_progress_with(self, rem, "scheduled")
rescheduling(self, rem) == in_progress_with(self, rem, "rescheduling")
waiting(self, rem) == in_progress_with(self, rem, "waiting")
submitting(self, rem) == in_progress_with(self, rem, "submitting")

\* mutant of execute: every workflow goes to the standard endpoint
execute_standard_endpoint(self, ts, rem) ==
    LET g == generate_workflow_description(self, ts)
        new_id == workflow_id(rem.launched + 1)
    IN IF g.exc # "none" THEN [exc |-> g.exc, wf |-> g.wf, ret |-> NoneV, calls |-> <<>>]
       ELSE [exc |-> "none", wf |-> [g.wf EXCEPT !.id = new_id], ret |-> new_id,
             calls |-> <<"launch">>]

\* Workflow.execute: generate_workflow_description, then one submission
execute(self, ts, rem) ==
    LET g == generate_workflow_description(self, ts)
        new_id == workflow_id(rem.launched + 1)
    IN IF g.exc # "none" THEN [exc |-> g.exc, wf |-> g.wf, ret |-> NoneV, calls |-> <<>>]
       ELSE IF g.wf.batch_values # <<>>
            THEN [exc |-> "none", wf |-> [g.wf EXCEPT !.id = new_id], ret |-> new_id,
                  calls |-> <<"launch_batch_workflow">>]
            ELSE [exc |-> "none", wf |-> [g.wf EXCEPT !.id = new_id], ret |-> new_id,
                  calls |-> <<"launch">>]

\* mutant of execute_remote_error: id is cleared before the submission
execute_remote_error_clears_id(self, ts) ==
    LET g == generate_workflow_description(self, ts)
    IN IF g.exc # "none" THEN [exc |-> g.exc, wf |-> g.wf, ret |-> NoneV, calls |-> <<>>]
       ELSE [exc |-> "RemoteError", wf |-> [g.wf EXCEPT !.id = NoneV], ret |-> NoneV,
             calls |-> IF g.wf.batch_values # <<>>
                       THEN <<"launch_batch_workflow">> ELSE <<"launch">>]

\* Workflow.execute when the submission raises: the error of the service
\* surfaces from the call, before self.id is assigned
execute_remote_error(self, ts) ==
    LET g == generate_workflow_description(self, ts)
    IN IF g.exc # "none" THEN [exc |-> g.exc, wf |-> g.wf, ret |-> NoneV, calls |-> <<>>]
       ELSE [exc |-> "RemoteError", wf |-> g.wf, ret |-> NoneV,
             calls |-> IF g.wf.batch_values # <<>>
                       THEN <<"launch_batch_workflow">> ELSE <<"launch">>]

\* the setter of a read-only property of Workflow (task_ids, status, events,
\* the lifecycle predicates, stdout, stderr): the exception and the workflow
\* afterwards
readonly_setter(self, value) == [exc |-> "NotImplementedError", wf |-> self]

----------------------------------------------------------------------------
(* State: the tasks constructed (by slot), the workflow (None until one is  *)
(* constructed), the remote service, the number of port operations made    *)
(* on the tasks since the workflow was constructed, and the outcome of the  *)
(* last operation.                                                          *)

MaxBatch == 2
MaxExecutes == 2
MaxLateEdits == 1

NoArgs == [t |-> 0, k |-> <<>>, arg |-> NoneV, kwargs |-> <<>>]

outcome(op, args, exc, ret, calls) ==
    [op |-> op, t |-> args.t, k |-> args.k, arg |-> args.arg, kwargs |-> args.kwargs,
     exc |-> exc, ret |-> ret, calls |-> calls]

Init ==
    /\ tasks = <<>>
    /\ wf = NoneV
    /\ remote = [launched |-> 0, kind |-> "none",
                 status |-> [state |-> "pending", event |-> "submitting"],
                 workflows |-> <<>>, tasks |-> <<>>, events |-> <<>>]
    /\ edits = 0
    /\ last = outcome("none", NoArgs, "none", NoneV, <<>>)

\* a port operation on a task after the workflow was constructed
late == IF wf = NoneV THEN 0 ELSE 1

\* task = Task(task_type, **kwargs), in the next free slot
TaskInit(t, task_type, kwargs) ==
    /\ t = Cardinality(DOMAIN tasks) + 1
    /\ t <= MaxTasks
    /\ wf = NoneV
    /\ LET r == Task__init__(t, task_type, kwargs)
       IN /\ tasks' = IF r.exc = "none" THEN (t :> r.task) @@ tasks ELSE tasks
          /\ last' = outcome("Task", [NoArgs EXCEPT !.t = t, !.k = task_type, !.kwargs = kwargs],
                             r.exc, NoneV, <<>>)
    /\ UNCHANGED <<wf, remote, edits>>

\* tasks[t].set(k=arg)
TaskSet(t, k, arg) ==
    /\ t \in DOMAIN tasks
    /\ edits + late <= MaxLateEdits
    /\ arg.tag = "list" => Len(tasks[t].batch_values) < MaxBatch
    /\ LET r == set(tasks[t], << <<k, arg>> >>)
       IN /\ tasks' = [tasks EXCEPT ![t] = r.task]
          /\ last' = outcome("set", [NoArgs EXCEPT !.t = t, !.k = k, !.arg = arg],
                             r.exc, NoneV, <<>>)
    /\ edits' = edits + late
    /\ UNCHANGED <<wf, remote>>

\* tasks[t].inputs.k = v
InputAssign(t, k, v) ==
    /\ t \in DOMAIN tasks
    /\ edits + late <= MaxLateEdits
    /\ v.tag = "list" => Len(tasks[t].batch_values) < MaxBatch
    /\ LET r == Inputs__setattr__(tasks[t].inputs, tasks[t].batch_values, k, v)
       IN /\ tasks' = [tasks EXCEPT ![t].inputs = r.inputs, ![t].batch_values = r.batch_values]
          /\ last' = outcome("inputs.setattr", [NoArgs EXCEPT !.t = t, !.k = k, !.arg = v],
                             r.exc, NoneV, <<>>)
    /\ edits' = edits + late
    /\ UNCHANGED <<wf, remote>>

\* tasks[t].outputs.k
OutputGet(t, k) ==
    /\ t \in DOMAIN tasks
    /\ edits + late <= MaxLateEdits
    /\ LET r == Outputs__getattribute__(tasks[t].outputs, tasks[t].name, k)
       IN /\ tasks' = [tasks EXCEPT ![t].outputs = r.outputs]
          /\ last' = outcome("outputs.getattr", [NoArgs EXCEPT !.t = t, !.k = k],
                             r.exc, r.ret, <<>>)
          /\ edits' = IF r.outputs # tasks[t].outputs THEN edits + late ELSE edits
    /\ UNCHANGED <<wf, remote>>

\* port.persist = v and, when loc is not None, port.persist_location = loc,
\* on the Port held under the name k of the outputs or inputs of tasks[t]
PersistSet(t, side, k, v, loc) ==
    /\ t \in DOMAIN tasks
    /\ k \in tasks[t][side].portnames
    /\ LET p0 == tasks[t][side].attrs[k]
           p1 == persist_setter(p0, v)
           p2 == IF loc # NoneV THEN persist_location_setter(p1, loc) ELSE p1
       IN /\ tasks' = [tasks EXCEPT ![t][side].attrs[k] = p2]
          /\ last' = outcome("persist.set", [NoArgs EXCEPT !.t = t, !.k = k, !.arg = loc,
                                                           !.kwargs = <<side, v>>],
                             "none", NoneV, <<>>)
    /\ UNCHANGED <<wf, remote, edits>>

\* tasks[t].timeout = v
TimeoutSet(t, v) ==
    /\ t \in DOMAIN tasks
    /\ LET r == timeout_setter(tasks[t], v)
       IN /\ tasks' = [tasks EXCEPT ![t] = r.task]
          /\ last' = outcome("timeout.set", [NoArgs EXCEPT !.t = t, !.arg = v],
                             r.exc, NoneV, <<>>)
    /\ UNCHANGED <<wf, remote, edits>>

\* tasks[t].timeout
TimeoutGet(t) ==
    /\ t \in DOMAIN tasks
    /\ last' = outcome("timeout.get", [NoArgs EXCEPT !.t = t], "none", tasks[t].timeout, <<>>)
    /\ UNCHANGED <<tasks, wf, remote, edits>>

\* tasks[t].generate_task_workflow_json()
TaskJson(t) ==
    /\ t \in DOMAIN tasks
    /\ last' = outcome("generate_task_workflow_json", [NoArgs EXCEPT !.t = t], "none",
                       generate_task_workflow_json(tasks[t], {}), <<>>)
    /\ UNCHANGED <<tasks, wf, remote, edits>>

\* wf = Workflow(task_list, callback=callback)
WorkflowInit(task_list, callback) ==
    /\ wf = NoneV
    /\ Range(task_list) \subseteq DOMAIN tasks
    /\ wf' = Workflow__init__(tasks, task_list, <<"wf">>, callback)
    /\ last' = outcome("Workflow", [NoArgs EXCEPT !.kwargs = task_list], "none", NoneV, <<>>)
    /\ UNCHANGED <<tasks, remote, edits>>

\* wf.generate_workflow_description()
Generate ==
    /\ wf # NoneV
    /\ LET r == generate_workflow_description(wf, tasks)
       IN /\ wf' = r.wf
          /\ last' = outcome("generate_workflow_description", NoArgs, r.exc,
                             IF r.exc = "none" THEN r.wf.definition ELSE NoneV, <<>>)
    /\ UNCHANGED <<tasks, remote, edits>>

\* wf.execute()
Execute ==
    /\ wf # NoneV
    /\ remote.launched < MaxExecutes
    /\ LET r == execute(wf, tasks, remote)
           d == r.wf.definition
       IN /\ wf' = r.wf
          /\ remote' = IF r.exc # "none" THEN remote
                       ELSE [remote EXCEPT
                               !.launched = @ + 1,
                               !.kind = IF r.calls = <<"launch">> THEN "standard" ELSE "batch",
                               !.workflows = IF r.calls = <<"launch">> THEN <<>>
                                             ELSE <<[state |-> "running"]>>,
                               !.tasks = [i \in 1..Len(d.tasks) |->
                                            [id |-> <<"t" \o ToString(i)>>,
                                             taskType |-> d.tasks[i].taskType,
                                             name |-> d.tasks[i].name]]]
          /\ last' = outcome("execute", NoArgs, r.exc, r.ret, r.calls)
    /\ UNCHANGED <<tasks, edits>>

\* wf.execute(), the service failing
ExecuteRemoteError ==
    /\ wf # NoneV
    /\ LET r == execute_remote_error(wf, tasks)
       IN /\ wf' = r.wf
          /\ last' = outcome("execute", NoArgs, r.exc, r.ret, r.calls)
    /\ UNCHANGED <<tasks, remote, edits>>

Accessors == {"status", "cancel", "stdout", "stderr", "task_ids", "events",
              "complete", "succeeded", "failed", "canceled", "running", "timedout",
              "scheduling", "rescheduling", "waiting", "submitting"}

access(op, self, rem) ==
    CASE op = "status" -> status(self, rem)
      [] op = "cancel" -> cancel(self, rem)
      [] op = "stdout" -> stdout(self, rem)
      [] op = "stderr" -> stderr(self, rem)
      [] op = "task_ids" -> task_ids(self, rem)
      [] op = "events" -> events(self, rem)
      [] op = "complete" -> complete(self, rem)
      [] op = "succeeded" -> succeeded(self, rem)
      [] op = "failed" -> failed(self, rem)
      [] op = "canceled" -> canceled(self, rem)
      [] op = "running" -> running(self, rem)
      [] op = "timedout" -> timedout(self, rem)
      [] op = "scheduling" -> scheduling(self, rem)
      [] op = "rescheduling" -> rescheduling(self, rem)
      [] op = "waiting" -> waiting(self, rem)
      [] op = "submitting" -> submitting(self, rem)

\* wf.<op>: a read of a property, or the call wf.cancel()
Access(op) ==
    /\ wf # NoneV
    /\ LET r == access(op, wf, remote)
       IN last' = outcome(op, NoArgs, r.exc, r.ret, r.calls)
    /\ UNCHANGED <<tasks, wf, remote, edits>>

\* the read-only properties of Workflow
ReadOnly == Accessors \ {"cancel"}

\* wf.<op> = value
PropertyWrite(op, value) ==
    /\ wf # NoneV
    /\ LET r == readonly_setter(wf, value)
       IN /\ wf' = r.wf
          /\ last' = outcome("write", [NoArgs EXCEPT !.k = <<op>>, !.arg = value],
                             r.exc, NoneV, <<>>)
    /\ UNCHANGED <<tasks, remote, edits>>

MaxSubWorkflows == 2

\* the service moves a submitted workflow to another status; the outcome of
\* the client's last operation is forgotten
RemoteStep ==
    /\ remote.kind # "none"
    /\ \/ /\ remote.kind = "standard"
          /\ \E st \in WorkflowStates, ev \in WorkflowEvents :
                remote' = [remote EXCEPT !.status = [state |-> st, event |-> ev]]
       \/ /\ remote.kind = "batch"
          /\ \E n \in 1..MaxSubWorkflows :
               \E ws \in [1..n -> SubWorkflowStates] :
                  remote' = [remote EXCEPT !.workflows = [i \in 1..n |-> [state |-> ws[i]]]]
    /\ last' = outcome("remote", NoArgs, "none", NoneV, <<>>)
    /\ UNCHANGED <<tasks, wf, edits>>

----------------------------------------------------------------------------
(* The inputs of the operations *)

L1 == <<"a", "b">>
L2 == <<"b", "a">>

PortData == <<"data">>
PortTimeout == <<"timeout">>

\* the names read from a task's outputs: declared, multiplex, prefixed by
\* the multiplex port, and matching nothing
OutputNames == {<<"out">>, <<"mp">>, <<"mp", "1">>, <<"zz">>}

\* the names assigned on a task's inputs: declared, prefixed by the multiplex
\* port, and matching nothing
InputNames == {<<"data">>, <<"in", "1">>, <<"zz">>}

\* the Port objects a caller can pass: the output ports materialized so far
OutputPorts == UNION {{PortV(tasks[a].outputs.attrs[o]) : o \in tasks[a].outputs.portnames} :
                         a \in DOMAIN tasks}

\* the values assigned to input ports: scalars, a literal that starts with
\* 'source:', lists
Scalars == {StrV(<<"v">>), BoolV(TRUE), BoolV(FALSE), IntV(0), NoneV,
            StrV(SOURCE \o <<"x">>)}
Lists == {ListV(L1), ListV(L2), ListV(<<>>)}

----------------------------------------------------------------------------
(* Spec: tasks are constructed and wired, each to its own outputs and to   *)
(* those of the task constructed before it, then assembled in any order     *)
(* into a workflow, which is serialized.                                    *)

Next ==
    \/ \E t \in TaskIds, ty \in TaskTypes : TaskInit(t, ty, <<>>)
    \/ \E t \in TaskIds, a \in TaskIds :
          /\ wf = NoneV
          /\ a \in DOMAIN tasks
          /\ t - a \in {0, 1}
          /\ \E o \in tasks[a].outputs.portnames :
                TaskSet(t, PortData, PortV(tasks[a].outputs.attrs[o]))
    \/ \E t \in TaskIds :
          /\ wf = NoneV
          /\ TaskSet(t, PortData, StrV(<<"v">>))
    \/ \E t \in TaskIds, k \in OutputNames :
          /\ wf = NoneV
          /\ OutputGet(t, k)
    \/ \E n \in 0..MaxTasks : \E task_list \in [1..n -> TaskIds] :
          /\ \A i, j \in 1..n : task_list[i] = task_list[j] => i = j
          /\ WorkflowInit(task_list, NoneV)
    \/ Generate

Spec == Init /\ [][Next]_vars

(* SpecValues: one task, every kind of value on its input ports.            *)

NextValues ==
    \/ \E ty \in TaskTypes, kwargs \in {<<>>, << <<PortData, ListV(L1)>> >>} :
          /\ tasks = <<>>
          /\ TaskInit(1, ty, kwargs)
    \/ \E t \in TaskIds, k \in {PortData, PortTimeout}, v \in Scalars \cup Lists \cup OutputPorts :
          TaskSet(t, k, v)
    \/ \E t \in TaskIds, k \in {PortData, PortTimeout}, v \in Scalars \cup Lists :
          InputAssign(t, k, v)
    \/ \E t \in TaskIds : TaskJson(t)

SpecValues == Init /\ [][NextValues]_vars

(* SpecTimeout: tasks constructed with and without a timeout keyword, and   *)
(* the timeout property.                                                    *)

TimeoutValues == {IntV(0 - 1), IntV(0), IntV(1), IntV(100), IntV(TimeoutLimit - 1),
                  IntV(TimeoutLimit), IntV(TimeoutLimit + 1)}

NextTimeout ==
    \/ \E t \in TaskIds, ty \in TaskTypes,
          kwargs \in {<<>>, << <<PortTimeout, IntV(100)>> >>} : TaskInit(t, ty, kwargs)
    \/ \E t \in TaskIds, v \in TimeoutValues : TimeoutSet(t, v)
    \/ \E t \in TaskIds : TimeoutGet(t)
    \/ \E t \in TaskIds : TaskJson(t)

SpecTimeout == Init /\ [][NextTimeout]_vars

(* SpecLife: a workflow of zero to MaxTasks tasks, batch or not, is         *)
(* submitted and queried.                                                   *)

NextLife ==
    \/ /\ tasks = <<>>
       /\ TaskInit(1, TypeP, <<>>)
    \/ \E t \in TaskIds :
          /\ t \in DOMAIN tasks
          /\ tasks[t].batch_values = <<>>
          /\ TaskSet(t, PortData, ListV(L1))
    \/ \E n \in {0, Cardinality(DOMAIN tasks)} : WorkflowInit([i \in 1..n |-> i], NoneV)
    \/ Generate
    \/ Execute
    \/ \E op \in Accessors : Access(op)
    \/ RemoteStep

SpecLife == Init /\ [][NextLife]_vars

(* SpecPorts: the ports of one task are assigned, read, marked to persist   *)
(* and serialized.                                                          *)

NextPorts ==
    \/ \E ty \in {TypeP, TypeM} :
          /\ tasks = <<>>
          /\ TaskInit(1, ty, <<>>)
    \/ \E t \in TaskIds, k \in InputNames, v \in {StrV(<<"v">>), ListV(L1)} :
          InputAssign(t, k, v)
    \/ \E t \in TaskIds, k \in OutputNames : OutputGet(t, k)
    \/ \E t \in TaskIds, k \in OutputNames, loc \in {NoneV, StrV(<<"loc">>)} :
          PersistSet(t, "outputs", k, TRUE, loc)
    \/ \E t \in TaskIds, k \in InputNames : PersistSet(t, "inputs", k, TRUE, NoneV)
    \/ \E t \in TaskIds : TaskJson(t)

SpecPorts == Init /\ [][NextPorts]_vars

(* SpecId: a workflow, batch or not, is constructed, serialized, submitted  *)
(* with and without success, queried, cancelled and written to.             *)

NextId ==
    \/ /\ tasks = <<>>
       /\ TaskInit(1, TypeP, <<>>)
    \/ \E t \in TaskIds :
          /\ t \in DOMAIN tasks
          /\ wf = NoneV
          /\ tasks[t].batch_values = <<>>
          /\ TaskSet(t, PortData, ListV(L1))
    \/ \E n \in {0, Cardinality(DOMAIN tasks)} : WorkflowInit([i \in 1..n |-> i], NoneV)
    \/ Generate
    \/ Execute
    \/ ExecuteRemoteError
    \/ \E op \in Accessors : Access(op)
    \/ \E op \in ReadOnly, value \in {NoneV, StrV(<<"x">>)} : PropertyWrite(op, value)

SpecId == Init /\ [][NextId]_vars

----------------------------------------------------------------------------
(* Properties *)

\* the port names a task's type declares
declared_inputs(task) ==
    {p.name : p \in Range(get_definition(task.type).inputPortDescriptors)}
declared_outputs(task) ==
    {p.name : p \in Range(get_definition(task.type).outputPortDescriptors)}

\* the entries of a serialized list that carry a name
entries_named(entries, n) == SelectSeq(entries, LAMBDA e : e.name = n)

(* C1: after B.set(i=A.outputs.o), o a declared output port of A and i a    *)
(* declared input port of B, the inputs list B serializes holds exactly one *)
(* entry named i, and it is {name: i, source: "<A.name>:o"}: a source key,  *)
(* no value key, the 'source:' prefix removed.                              *)
C1_Wiring ==
    \A a \in DOMAIN tasks : \A o \in declared_outputs(tasks[a]) :
        (/\ last.op = "set"
         /\ last.exc = "none"
         /\ last.arg = PortV(tasks[a].outputs.attrs[o])
         /\ last.k \in declared_inputs(tasks[last.t]))
        => entries_named(generate_task_workflow_json(tasks[last.t], {}).inputs, last.k)
             = <<[name |-> last.k, source |-> tasks[a].name \o <<":">> \o o]>>

\* a task was just wired to a declared output of another task
C1_Witness ==
    \E a \in DOMAIN tasks : \E o \in declared_outputs(tasks[a]) :
        /\ last.op = "set"
        /\ last.exc = "none"
        /\ last.t # a
        /\ last.arg = PortV(tasks[a].outputs.attrs[o])
        /\ last.k \in declared_inputs(tasks[last.t])

(* C2: generate_task_workflow_json emits no entry for an input port whose   *)
(* value is unset (None), exactly one entry for every input port with any   *)
(* other value, and no entry that carries the value None.                   *)
C2_UnsetOmitted ==
    last.op = "generate_task_workflow_json" =>
        /\ \A p \in tasks[last.t].inputs.portnames :
              Len(entries_named(last.ret.inputs, p)) =
                  IF tasks[last.t].inputs.attrs[p].value = NoneV THEN 0 ELSE 1
        /\ \A i \in 1..Len(last.ret.inputs) :
              /\ last.ret.inputs[i].name \in tasks[last.t].inputs.portnames
              /\ "value" \in DOMAIN last.ret.inputs[i] => last.ret.inputs[i].value # NoneV

\* a task with an unset required port, and an optional port holding False,
\* was serialized
C2_Witness ==
    /\ last.op = "generate_task_workflow_json"
    /\ tasks[last.t].type = TypeQ
    /\ tasks[last.t].inputs.attrs[PortData].value = NoneV
    /\ tasks[last.t].inputs.attrs[PortData].required = BoolV(TRUE)
    /\ tasks[last.t].inputs.attrs[PortTimeout].value = BoolV(FALSE)

(* C3: assigning a list L to a declared input port p, by task.inputs.p = L  *)
(* or task.set(p=L), succeeds, sets the port's value to the string          *)
(* "{{batch_input_p}}" and appends {name: "batch_input_p", values: L} to    *)
(* the task's batch_values.                                                 *)
C3_ListBecomesBatch ==
    [][(/\ last'.op \in {"set", "inputs.setattr"}
        /\ last'.arg.tag = "list"
        /\ last'.k \in declared_inputs(tasks[last'.t]))
       => /\ last'.exc = "none"
          /\ tasks'[last'.t].inputs.attrs[last'.k].value
                = StrV(<<"{{", "batch_input_">> \o last'.k \o <<"}}">>)
          /\ tasks'[last'.t].batch_values
                = Append(tasks[last'.t].batch_values,
                         [name |-> <<"batch_input_">> \o last'.k, values |-> last'.arg.items])]_vars

\* a two-element list was assigned to a port of a task that had a batch entry
C3_Witness ==
    /\ last.op \in {"set", "inputs.setattr"}
    /\ last.arg = ListV(L2)
    /\ last.exc = "none"
    /\ Len(tasks[last.t].batch_values) = 2

\* "source:<task.name>:<port>"
forward_reference(task, p) == StrV(<<"source", ":">> \o task.name \o <<":">> \o p)

\* p is a multiplex output port of the task, or was materialized from one
in_multiplex_family(task, p) ==
    \/ task.outputs.attrs[p].is_multiplex
    \/ \E q \in task.outputs.portnames :
          task.outputs.attrs[q].is_multiplex /\ startswith(p, q) /\ p # q

\* the forward reference of port p of the i-th task of the workflow is the
\* value of an input port of the j-th
referenced_by(i, p, j) ==
    \E n \in tasks[wf.tasks[j]].inputs.portnames :
        tasks[wf.tasks[j]].inputs.attrs[n].value = forward_reference(tasks[wf.tasks[i]], p)

\* generate_workflow_description has just returned a document
generated == last.op = "generate_workflow_description" /\ last.exc = "none"

C5_SingleTaskKeepsOutputs ==
    (generated /\ Len(wf.tasks) = 1) =>
        /\ \A p \in tasks[wf.tasks[1]].outputs.portnames :
              Len(entries_named(last.ret.tasks[1].outputs, p)) = 1
        /\ Len(last.ret.tasks[1].outputs) = Cardinality(tasks[wf.tasks[1]].outputs.portnames)

\* a one-task workflow was serialized whose task has a multiplex port and a
\* port materialized from it, neither referenced by any input
C5_Witness ==
    /\ generated
    /\ Len(wf.tasks) = 1
    /\ tasks[wf.tasks[1]].type = TypeP
    /\ <<"mp", "1">> \in tasks[wf.tasks[1]].outputs.portnames
    /\ tasks[wf.tasks[1]].inputs.attrs[PortData].value = NoneV

(* C6: the timeout setter accepts v exactly when 0 < v < 172800: then the   *)
(* task's timeout becomes v and the next read of timeout returns v;         *)
(* otherwise it raises ValueError and the timeout is as before.             *)
C6_TimeoutRange ==
    [][/\ last'.op = "timeout.set" =>
             IF 0 < last'.arg.n /\ last'.arg.n < 172800
             THEN /\ last'.exc = "none"
                  /\ tasks'[last'.t].timeout = last'.arg
             ELSE /\ last'.exc = "ValueError"
                  /\ tasks'[last'.t].timeout = tasks[last'.t].timeout
       /\ (/\ last'.op = "timeout.get"
           /\ last.op = "timeout.set"
           /\ last.exc = "none"
           /\ last.t = last'.t) => last'.ret = last.arg]_vars

\* 172799 was set and read back
C6_Witness ==
    /\ last.op = "timeout.get"
    /\ last.ret = IntV(172799)

\* the keyword arguments timeout=100
timeout_100 == << <<PortTimeout, IntV(100)>> >>

(* C7, as claimed: constructing a task of any type with timeout=100         *)
(* succeeds, and the task's timeout property and its serialized record      *)
(* carry 100.                                                               *)
C7_Original ==
    (last.op = "Task" /\ last.kwargs = timeout_100) =>
        /\ last.exc = "none"
        /\ tasks[last.t].timeout = IntV(100)
        /\ generate_task_workflow_json(tasks[last.t], {}).timeout = IntV(100)

(* C7, amended: the keyword timeout=100 of the constructor is an input      *)
(* port assignment.  For a type with an input port named timeout the        *)
(* construction succeeds, the port's value is 100 and the timeout property  *)
(* and the serialized timeout are the registry's; for a type without one    *)
(* it fails with AttributeError and no task is made.  Only the assignment   *)
(* task.timeout = 100 makes the property and the serialized record carry    *)
(* 100.                                                                     *)
C7_TimeoutKeyword ==
    /\ (last.op = "Task" /\ last.kwargs = timeout_100) =>
          IF PortTimeout \in {p.name : p \in Range(get_definition(last.k).inputPortDescriptors)}
          THEN /\ last.exc = "none"
               /\ tasks[last.t].inputs.attrs[PortTimeout].value = IntV(100)
               /\ tasks[last.t].timeout = get_definition(last.k).timeout
               /\ generate_task_workflow_json(tasks[last.t], {}).timeout
                     = get_definition(last.k).timeout
          ELSE /\ last.exc = "AttributeError"
               /\ last.t \notin DOMAIN tasks
    /\ (last.op = "timeout.set" /\ last.arg = IntV(100)) =>
          /\ last.exc = "none"
          /\ tasks[last.t].timeout = IntV(100)
          /\ generate_task_workflow_json(tasks[last.t], {}).timeout = IntV(100)

\* a task of the type with a timeout input port was constructed with
\* timeout=100
C7_Witness ==
    /\ last.op = "Task"
    /\ last.kwargs = timeout_100
    /\ last.exc = "none"
    /\ tasks[last.t].type = TypeQ

(* C8: on a workflow of zero tasks generate_workflow_description and        *)
(* execute raise WorkflowError; no remote call is made, and the workflow    *)
(* (its id, unset, and its cached definition) and the service are as        *)
(* before.                                                                  *)
C8_NoTasks ==
    [][(/\ last'.op \in {"generate_workflow_description", "execute"}
        /\ wf.tasks = <<>>)
       => /\ last'.exc = "WorkflowError"
          /\ last'.calls = <<>>
          /\ wf'.id = NoneV
          /\ wf'.definition = wf.definition
          /\ wf' = wf
          /\ remote' = remote]_vars

\* execute was called on a workflow of zero tasks
C8_Witness ==
    /\ last.op = "execute"
    /\ wf.tasks = <<>>
    /\ last.exc = "WorkflowError"

LifecyclePredicates == {"complete", "succeeded", "failed", "canceled", "running", "timedout",
                        "scheduling", "rescheduling", "waiting", "submitting"}

(* C9: while id is unset, status, cancel(), stdout, stderr, task_ids and    *)
(* events raise WorkflowError and every lifecycle predicate returns False   *)
(* without raising; none makes a remote call; batch or not.                 *)
C9_NotRunning ==
    (last.op \in Accessors /\ wf.id = NoneV) =>
        /\ last.calls = <<>>
        /\ IF last.op \in LifecyclePredicates
           THEN last.exc = "none" /\ last.ret = FALSE
           ELSE last.exc = "WorkflowError"

\* task_ids was read on a batch workflow not yet executed
C9_Witness ==
    /\ last.op = "task_ids"
    /\ wf.id = NoneV
    /\ wf.batch_values # <<>>

BatchUnsupported == {"task_ids", "events", "stdout", "stderr"}

(* C10, as claimed: on a batch workflow, executed or not, task_ids, events, *)
(* stdout and stderr raise NotImplementedError and make no remote call.     *)
C10_Original ==
    (last.op \in BatchUnsupported /\ wf.batch_values # <<>>) =>
        /\ last.exc = "NotImplementedError"
        /\ last.calls = <<>>

(* C10, amended: on a batch workflow task_ids, events, stdout and stderr    *)
(* make no remote call and raise NotImplementedError once the workflow has  *)
(* been executed; before that (id unset) they raise the not-running         *)
(* WorkflowError.                                                           *)
C10_BatchUnsupported ==
    (last.op \in BatchUnsupported /\ wf.batch_values # <<>>) =>
        /\ last.exc = IF wf.id = NoneV THEN "WorkflowError" ELSE "NotImplementedError"
        /\ last.calls = <<>>

\* stdout was read on an executed batch workflow
C10_Witness ==
    /\ last.op = "stdout"
    /\ wf.batch_values # <<>>
    /\ wf.id # NoneV
    /\ last.exc = "NotImplementedError"


(* C11: execute() on a workflow that has tasks regenerates the definition   *)
(* from the tasks as they are, then makes exactly one submission: to the    *)
(* batch endpoint if and only if the workflow's batch_values is non-empty,  *)
(* else to the standard endpoint; the identifier the service returns is     *)
(* stored in id and returned; a second execute() submits again and          *)
(* overwrites id with the new identifier.                                   *)
C11_Execute ==
    [][(last'.op = "execute" /\ wf.tasks # <<>>)
       => /\ last'.exc = "none"
          /\ wf'.definition = generate_workflow_description(wf, tasks).wf.definition
          /\ last'.calls = IF wf.batch_values # <<>>
                           THEN <<"launch_batch_workflow">> ELSE <<"launch">>
          /\ remote'.launched = remote.launched + 1
          /\ remote'.kind = IF wf.batch_values # <<>> THEN "batch" ELSE "standard"
          /\ [i \in 1..Len(remote'.tasks) |-> remote'.tasks[i].name]
                = [i \in 1..Len(wf'.definition.tasks) |-> wf'.definition.tasks[i].name]
          /\ last'.ret = workflow_id(remote'.launched)
          /\ wf'.id = last'.ret
          /\ wf'.id # wf.id]_vars

\* a batch workflow was executed a second time
C11_Witness ==
    /\ last.op = "execute"
    /\ last.exc = "none"
    /\ last.calls = <<"launch_batch_workflow">>
    /\ remote.launched = 2
    /\ wf.id = workflow_id(2)


\* the batch_values of the workflow's tasks as they are now, in task order
current_batch_values ==
    Flatten([i \in 1..Len(wf.tasks) |-> tasks[wf.tasks[i]].batch_values])

(* C12: whenever a workflow has been serialized or executed, its            *)
(* batch_values is the concatenation, in task order, of the batch_values    *)
(* its tasks have at that moment: a list assigned to a task's input port    *)
(* after the Workflow was constructed is attached to the generated document *)
(* and routes execute() to the batch endpoint.                              *)
C12_BatchValuesCurrent ==
    (last.op \in {"generate_workflow_description", "execute"} /\ last.exc = "none") =>
        /\ wf.batch_values = current_batch_values
        /\ current_batch_values # <<>> =>
              /\ "batch_values" \in DOMAIN wf.definition
              /\ wf.definition.batch_values = current_batch_values
        /\ last.op = "execute" =>
              last.calls = IF current_batch_values # <<>>
                           THEN <<"launch_batch_workflow">> ELSE <<"launch">>


(* C13: after any sequence of input assignments and output reads, those     *)
(* that create ports from a multiplex port included, every name n of the    *)
(* port-name set of an Inputs or Outputs collection is bound to a Port, and *)
(* that Port's name attribute is n.                                         *)
C13_PortNamesMatch ==
    \A t \in DOMAIN tasks : \A side \in {"inputs", "outputs"} :
        \A n \in tasks[t][side].portnames :
            /\ hasattr(tasks[t][side], n)
            /\ tasks[t][side].attrs[n].name = n


\* what a lifecycle predicate says of a status record {state, event}
of_snapshot(op, st) ==
    CASE op = "complete" -> st.state = "complete"
      [] op \in {"succeeded", "failed", "canceled", "timedout"} ->
            st.state = "complete" /\ st.event = op
      [] op = "running" -> st.state = "running" /\ st.event = "started"
      [] op = "scheduling" -> st.state \in {"pending", "running"} /\ st.event = "scheduled"
      [] op \in {"rescheduling", "waiting", "submitting"} ->
            st.state \in {"pending", "running"} /\ st.event = op

\* what a lifecycle predicate says of the sub-workflows of a batch status
of_batch_snapshot(op, workflows) ==
    CASE op = "complete" ->
            \A i \in 1..Len(workflows) : workflows[i].state \in {"succeeded", "failed", "timedout"}
      [] op = "succeeded" -> \A i \in 1..Len(workflows) : workflows[i].state = "succeeded"
      [] op = "running" ->
            \E i \in 1..Len(workflows) : workflows[i].state \notin {"succeeded", "failed", "timedout"}

\* the accessors that fetch the status of a batch workflow
BatchStatusReaders == {"status", "complete", "succeeded", "running"}

\* the value an access that fetches the status now must return
fresh_value(op) ==
    IF wf.batch_values # <<>>
    THEN IF op = "status" THEN [workflows |-> remote.workflows]
         ELSE of_batch_snapshot(op, remote.workflows)
    ELSE IF op = "status" THEN remote.status ELSE of_snapshot(op, remote.status)

\* the one status call of a workflow
status_fetch == IF wf.batch_values # <<>> THEN <<"batch_workflow_status">> ELSE <<"status">>

(* C14, as claimed: on a submitted workflow, batch or not, every access to  *)
(* status or to a lifecycle predicate makes exactly one remote status       *)
(* fetch and returns what the status of the service is at that moment.      *)
C14_Original ==
    (last.op \in {"status"} \cup LifecyclePredicates /\ wf.id # NoneV) =>
        /\ last.calls = status_fetch
        /\ last.exc = "none"
        /\ last.ret = fresh_value(last.op)

(* C14, amended: on a submitted workflow every access to status, complete,  *)
(* succeeded or running, and on a submitted non-batch workflow every access *)
(* to any other lifecycle predicate, makes exactly one remote status fetch  *)
(* and returns what the status of the service is at that moment; on a       *)
(* submitted batch workflow the other predicates raise NotImplementedError  *)
(* and fetch nothing.                                                       *)
C14_FreshFetch ==
    (last.op \in {"status"} \cup LifecyclePredicates /\ wf.id # NoneV) =>
        IF wf.batch_values # <<>> /\ last.op \notin BatchStatusReaders
        THEN /\ last.calls = <<>>
             /\ last.exc = "NotImplementedError"
        ELSE /\ last.calls = status_fetch
             /\ last.exc = "none"
             /\ last.ret = fresh_value(last.op)

\* succeeded was read as true on a workflow whose status at submission was
\* pending
C14_Witness ==
    /\ last.op = "succeeded"
    /\ wf.id # NoneV
    /\ wf.batch_values = <<>>
    /\ remote.status = [state |-> "complete", event |-> "succeeded"]
    /\ last.ret = TRUE


(* C15: on a submitted batch workflow failed, canceled, timedout,           *)
(* scheduling, rescheduling, waiting and submitting raise                   *)
(* NotImplementedError; complete, succeeded and running raise nothing and   *)
(* return a boolean computed from the sub-workflow states of the batch      *)
(* status they fetch.                                                       *)
C15_BatchPredicates ==
    (last.op \in LifecyclePredicates /\ wf.id # NoneV /\ wf.batch_values # <<>>) =>
        IF last.op \in {"complete", "succeeded", "running"}
        THEN /\ last.exc = "none"
             /\ last.ret \in BOOLEAN
             /\ last.calls = <<"batch_workflow_status">>
             /\ last.ret = of_batch_snapshot(last.op, remote.workflows)
        ELSE last.exc = "NotImplementedError"

\* failed was read on a submitted batch workflow whose sub-workflows have
\* all failed
C15_Witness ==
    /\ last.op = "failed"
    /\ wf.id # NoneV
    /\ wf.batch_values # <<>>
    /\ remote.workflows = <<[state |-> "failed"], [state |-> "failed"]>>
    /\ last.exc = "NotImplementedError"


(* C16: generate_task_workflow_json emits, for an input port whose value is *)
(* True, exactly the entry {name, value: "true"} and, for one whose value   *)
(* is False, exactly the entry {name, value: "false"}: False is emitted,    *)
(* not taken for unset.                                                     *)
C16_BooleanLiterals ==
    last.op = "generate_task_workflow_json" =>
        \A p \in tasks[last.t].inputs.portnames :
            /\ tasks[last.t].inputs.attrs[p].value = BoolV(TRUE) =>
                  entries_named(last.ret.inputs, p) = <<[name |-> p, value |-> StrV(<<"true">>)]>>
            /\ tasks[last.t].inputs.attrs[p].value = BoolV(FALSE) =>
                  entries_named(last.ret.inputs, p) = <<[name |-> p, value |-> StrV(<<"false">>)]>>

\* a task with one port holding True and another holding False was serialized
C16_Witness ==
    /\ last.op = "generate_task_workflow_json"
    /\ tasks[last.t].type = TypeQ
    /\ tasks[last.t].inputs.attrs[PortData].value = BoolV(TRUE)
    /\ tasks[last.t].inputs.attrs[PortTimeout].value = BoolV(FALSE)


\* a multiplex port of the collection strictly prefixes the name k
multiplex_prefixed(outs, k) ==
    \E q \in outs.portnames : outs.attrs[q].is_multiplex /\ startswith(k, q) /\ k # q

(* C17: a read of the name k from a task's outputs returns the port held    *)
(* under k, the collection unchanged (a read after the first returns the    *)
(* port as it is, persist flags included), when k is a port name; creates   *)
(* and registers under k a port whose value is "source:<task name>:k",      *)
(* every other port unchanged, when k is no port name and a multiplex       *)
(* port's name strictly prefixes it; otherwise raises AttributeError and    *)
(* leaves the collection unchanged.                                         *)
C17_OutputRead ==
    [][last'.op = "outputs.getattr" =>
          LET outs == tasks[last'.t].outputs
              after == tasks'[last'.t].outputs
              k == last'.k
          IN IF k \in outs.portnames
             THEN /\ last'.exc = "none"
                  /\ after = outs
                  /\ last'.ret = outs.attrs[k]
             ELSE IF multiplex_prefixed(outs, k)
                  THEN /\ last'.exc = "none"
                       /\ after.portnames = outs.portnames \cup {k}
                       /\ after.attrs[k] = last'.ret
                       /\ last'.ret.value = forward_reference(tasks[last'.t], k)
                       /\ ~last'.ret.is_input_port
                       /\ \A n \in outs.portnames : after.attrs[n] = outs.attrs[n]
                  ELSE /\ last'.exc = "AttributeError"
                       /\ after = outs]_vars

\* a port created from the multiplex port and then marked to persist was
\* read again
C17_Witness ==
    /\ last.op = "outputs.getattr"
    /\ last.k = <<"mp", "1">>
    /\ last.exc = "none"
    /\ last.ret.persist_attr
    /\ last.ret.persist_location_attr = StrV(<<"loc">>)
    /\ last.ret.value = forward_reference(tasks[last.t], <<"mp", "1">>)


(* C18: generate_workflow_description changes nothing but the cached        *)
(* definition: the tasks (port values, port sets, batch_values), the        *)
(* workflow's id and its other fields and the service are as before; the    *)
(* document returned is the one cached and has one record per task of the   *)
(* workflow, in order; a call that follows a call returns an equal          *)
(* document.                                                                *)
C18_GenerateIdempotent ==
    [][last'.op = "generate_workflow_description" =>
          /\ tasks' = tasks
          /\ remote' = remote
          /\ wf'.id = wf.id
          /\ wf' = [wf EXCEPT !.definition = wf'.definition]
          /\ last'.exc = "none" =>
                /\ last'.ret = wf'.definition
                /\ [i \in 1..Len(last'.ret.tasks) |-> last'.ret.tasks[i].name]
                      = [i \in 1..Len(wf.tasks) |-> tasks[wf.tasks[i]].name]
          /\ (last.op = "generate_workflow_description" /\ last.exc = "none") =>
                last'.ret = last.ret]_vars

\* a submitted batch workflow was serialized again
C18_Witness ==
    /\ last.op = "generate_workflow_description"
    /\ last.exc = "none"
    /\ wf.id # NoneV
    /\ wf.batch_values # <<>>
    /\ last.ret.batch_values = wf.batch_values
    /\ Len(last.ret.tasks) = 1


\* the predicates that name one stage of a workflow's life
StagePredicates == LifecyclePredicates \ {"complete"}

(* C19: on a submitted non-batch workflow, when one of succeeded, failed,   *)
(* canceled, timedout, running, scheduling, rescheduling, waiting and       *)
(* submitting is read as true, every other of them is false of the same     *)
(* status record; complete is true of it if the one read is succeeded,      *)
(* failed, canceled or timedout, and false if it is running.                *)
C19_Exclusive ==
    (/\ last.op \in StagePredicates
     /\ wf.id # NoneV
     /\ wf.batch_values = <<>>
     /\ last.ret = TRUE) =>
        /\ \A op \in StagePredicates \ {last.op} : access(op, wf, remote).ret = FALSE
        /\ last.op \in {"succeeded", "failed", "canceled", "timedout"} =>
              complete(wf, remote).ret = TRUE
        /\ last.op = "running" => complete(wf, remote).ret = FALSE

\* running was read as true
C19_Witness ==
    /\ last.op = "running"
    /\ wf.id # NoneV
    /\ wf.batch_values = <<>>
    /\ last.ret = TRUE
    /\ remote.status = [state |-> "running", event |-> "started"]


\* the states in which a sub-workflow of a batch counts as done
DoneStates == {"succeeded", "failed", "timedout"}

(* C20: on a submitted batch workflow, of one batch status: complete is     *)
(* true exactly when every sub-workflow state is succeeded, failed or       *)
(* timedout, running exactly when some sub-workflow state is none of        *)
(* these, so each is the negation of the other; succeeded implies           *)
(* complete; a batch with a sub-workflow in another state, canceled for     *)
(* one, is running and not complete.                                        *)
C20_BatchComplement ==
    (/\ last.op \in {"complete", "succeeded", "running"}
     /\ wf.id # NoneV
     /\ wf.batch_values # <<>>) =>
        LET ws == remote.workflows
            c == IF last.op = "complete" THEN last.ret ELSE complete(wf, remote).ret
            r == IF last.op = "running" THEN last.ret ELSE running(wf, remote).ret
            s == IF last.op = "succeeded" THEN last.ret ELSE succeeded(wf, remote).ret
        IN /\ c = (\A i \in 1..Len(ws) : ws[i].state \in DoneStates)
           /\ r = (\E i \in 1..Len(ws) : ws[i].state \notin DoneStates)
           /\ c = ~r
           /\ s => c
           /\ (\E i \in 1..Len(ws) : ws[i].state = "canceled") => (r /\ ~c)

\* complete was read on a batch of a succeeded and a canceled sub-workflow
C20_Witness ==
    /\ last.op = "complete"
    /\ wf.id # NoneV
    /\ wf.batch_values # <<>>
    /\ remote.workflows = <<[state |-> "succeeded"], [state |-> "canceled"]>>
    /\ last.ret = FALSE


(* C21: the id of a workflow is unset when the workflow is constructed; it  *)
(* changes only in an execute() that succeeds, to the identifier that call  *)
(* returns; generate, cancel, the accessors, a rejected write to a          *)
(* read-only property and an execute() that fails leave it as it was; once  *)
(* set it is never unset again.                                             *)
C21_IdForward ==
    [][/\ (wf = NoneV /\ wf' # NoneV) => wf'.id = NoneV
       /\ wf # NoneV =>
             /\ wf' # NoneV
             /\ wf'.id # wf.id =>
                   /\ last'.op = "execute"
                   /\ last'.exc = "none"
                   /\ wf'.id = last'.ret
             /\ (last'.op = "execute" /\ last'.exc = "none") =>
                   (wf'.id = last'.ret /\ wf'.id # NoneV)
             /\ (last'.op = "execute" /\ last'.exc # "none") => wf'.id = wf.id
             /\ last'.op = "write" => (last'.exc = "NotImplementedError" /\ wf' = wf)
             /\ wf.id # NoneV => wf'.id # NoneV]_vars

\* the submission of a workflow that holds an identifier failed
C21_Witness ==
    /\ last.op = "execute"
    /\ last.exc = "RemoteError"
    /\ wf.id = workflow_id(1)
    /\ wf.definition # NoneV


(* C22: after any sequence of assignments of lists and scalars to the       *)
(* declared input ports of a task, its batch_values holds an entry named    *)
(* batch_input_p exactly for the ports p whose value is the placeholder     *)
(* "{{batch_input_p}}", one entry at most for a port, and the entry of a    *)
(* port just assigned a list holds that list.                               *)
C22_BatchConsistent ==
    \A t \in DOMAIN tasks : \A p \in declared_inputs(tasks[t]) :
        LET es == entries_named(tasks[t].batch_values, batch_input_name(p))
        IN /\ Len(es) = IF tasks[t].inputs.attrs[p].value = StrV(batch_placeholder(p))
                        THEN 1 ELSE 0
           /\ (/\ last.op \in {"set", "inputs.setattr"}
               /\ last.exc = "none"
               /\ last.t = t
               /\ last.k = p
               /\ last.arg.tag = "list") => es = <<[name |-> batch_input_name(p),
                                                    values |-> last.arg.items]>>

====
